---- MODULE Spec2Model ----
(***************************************************************************)
(* Model of the player-control core of move_2d_player (src/src/player.rs). *)
(*                                                                         *)
(* PlayerState and PlayerDirection are engine state resources: a system    *)
(* reads the committed value through State<S> and asks for a change        *)
(* through NextState<S>::set.  The request is committed, and the OnEnter   *)
(* systems run, in the StateTransition schedule, which the engine runs     *)
(* once at startup (before Startup) and then in every frame before Update. *)
(*                                                                         *)
(* Time is counted in milliseconds: IDLE_SPRITE_TIMER = 0.1 s = 100 and    *)
(* RUN_SPRITE_TIMER = 0.05 s = 50.  Speeds are per second, so a            *)
(* displacement speed * delta is expressed in thousandths of a unit.       *)
(* The f32 rounding of the two durations (Duration::from_secs_f32 yields    *)
(* about 1 ns more than 100 ms and 50 ms) and of the products is left out.  *)
(*                                                                         *)
(* A frame's four key edges are any four booleans: a key pressed and       *)
(* released within one frame raises both of its edges, and with such       *)
(* frames every combination of state, direction and edges can be reached   *)
(* from the spawn configuration.                                           *)
(***************************************************************************)
EXTENDS Integers, Sequences, FiniteSets

\* Frame times are multiples of 10 ms from 0 (the first frame's delta) to
\* 10 * MaxDtTicks ms.
MaxDtTicks == 2

DtValues == {10 * k : k \in 0..MaxDtTicks}

\* player.rs:10-17
IDLE_SPRITE_FIRST == 0
IDLE_SPRITE_LAST == 9
IDLE_SPRITE_TIMER == 100
RUN_SPRITE_FIRST == 10
RUN_SPRITE_LAST == 19
RUN_SPRITE_TIMER == 50
PLAYER_SPEED == 500
GRAVITY == -250
\* player.rs:121, GravityScale(1.0)
GRAVITY_SCALE == 1

PlayerState == {"Idle", "Run"}
PlayerDirection == {"Right", "Left"}

\* NextState::Unchanged, no transition, and the world without the Player entity.
\* controller.translation is <<>> for Option::None and <<x, y>> for Some.
Unchanged == "Unchanged"
None == "None"
NoPlayer == [spawned |-> FALSE]

\* ButtonInput<KeyCode>: the four edges update_player_state reads
KeyEdges == [pressed_right : BOOLEAN, released_right : BOOLEAN,
             pressed_left : BOOLEAN, released_left : BOOLEAN]

NoEdges == [pressed_right |-> FALSE, released_right |-> FALSE,
            pressed_left |-> FALSE, released_left |-> FALSE]

VARIABLES
    pc,                     \* position in the app's schedules
    player_state,           \* State<PlayerState>
    player_direction,       \* State<PlayerDirection>
    next_player_state,      \* NextState<PlayerState>
    next_player_direction,  \* NextState<PlayerDirection>
    keyboard_input,         \* this frame's edges
    delta,                  \* Time::delta of this frame, ms
    player,                 \* the Player entity's components, or NoPlayer
    issued,                 \* the NextState::set calls of this frame's update_player_state
    last_transition,        \* PlayerState exited by this frame's StateTransition, or None
    todo                    \* systems of the Update chain still to run after update_player_state

vars == <<pc, player_state, player_direction, next_player_state,
          next_player_direction, keyboard_input, delta, player, issued,
          last_transition, todo>>

----------------------------------------------------------------------------
\* Timer::tick in TimerMode::Repeating: [elapsed, finished] after adding dt
TimerTick(elapsed, duration, dt) ==
    LET e == elapsed + dt
    IN  IF e >= duration
        THEN [elapsed |-> e % duration, finished |-> TRUE]
        ELSE [elapsed |-> e, finished |-> FALSE]

\* animate_player advancing past the last index instead of wrapping
animate_player_NoWrap(p, dt) ==
    IF ~p.spawned THEN p
    ELSE LET t == TimerTick(p.timer_elapsed, p.timer_duration, dt)
             q == [p EXCEPT !.timer_elapsed = t.elapsed]
         IN  IF t.finished
             THEN [q EXCEPT !.atlas_index = p.atlas_index + 1]
             ELSE q

\* animate_player advancing the index whether or not the timer has finished
animate_player_EveryFrame(p, dt) ==
    IF ~p.spawned THEN p
    ELSE LET t == TimerTick(p.timer_elapsed, p.timer_duration, dt)
             q == [p EXCEPT !.timer_elapsed = t.elapsed]
         IN  [q EXCEPT !.atlas_index =
                 IF p.atlas_index = p.indices_last
                 THEN p.indices_first
                 ELSE p.atlas_index + 1]

\* animate_player on the entity's components
animate_player(p, dt) ==
    IF ~p.spawned THEN p
    ELSE LET t == TimerTick(p.timer_elapsed, p.timer_duration, dt)
             q == [p EXCEPT !.timer_elapsed = t.elapsed]
         IN  IF t.finished
             THEN [q EXCEPT !.atlas_index =
                       IF p.atlas_index = p.indices_last
                       THEN p.indices_first
                       ELSE p.atlas_index + 1]
             ELSE q

\* spawn_player starting the timer with the Run duration
spawn_player_RunTimer ==
    [spawned |-> TRUE,
     indices_first |-> IDLE_SPRITE_FIRST,
     indices_last |-> IDLE_SPRITE_LAST,
     atlas_index |-> IDLE_SPRITE_FIRST,
     timer_duration |-> RUN_SPRITE_TIMER,
     timer_elapsed |-> 0,
     flip_x |-> FALSE,
     translation |-> <<>>]

\* spawn_player: the components the model tracks
spawn_player ==
    [spawned |-> TRUE,
     indices_first |-> IDLE_SPRITE_FIRST,
     indices_last |-> IDLE_SPRITE_LAST,
     atlas_index |-> IDLE_SPRITE_FIRST,
     timer_duration |-> IDLE_SPRITE_TIMER,
     timer_elapsed |-> 0,
     flip_x |-> FALSE,
     translation |-> <<>>]

set_idle(p) ==
    IF ~p.spawned THEN p
    ELSE [p EXCEPT !.indices_first = IDLE_SPRITE_FIRST,
                   !.indices_last = IDLE_SPRITE_LAST,
                   !.timer_duration = IDLE_SPRITE_TIMER,
                   !.atlas_index = IDLE_SPRITE_FIRST]

\* set_run leaving the timer's duration at the Idle value
set_run_KeepsDuration(p) ==
    IF ~p.spawned THEN p
    ELSE [p EXCEPT !.indices_first = RUN_SPRITE_FIRST,
                   !.indices_last = RUN_SPRITE_LAST,
                   !.atlas_index = RUN_SPRITE_FIRST]

\* set_run restarting the timer
set_run_ResetsTimer(p) ==
    IF ~p.spawned THEN p
    ELSE [p EXCEPT !.indices_first = RUN_SPRITE_FIRST,
                   !.indices_last = RUN_SPRITE_LAST,
                   !.timer_duration = RUN_SPRITE_TIMER,
                   !.timer_elapsed = 0,
                   !.atlas_index = RUN_SPRITE_FIRST]

set_run(p) ==
    IF ~p.spawned THEN p
    ELSE [p EXCEPT !.indices_first = RUN_SPRITE_FIRST,
                   !.indices_last = RUN_SPRITE_LAST,
                   !.timer_duration = RUN_SPRITE_TIMER,
                   !.atlas_index = RUN_SPRITE_FIRST]

set_sprite_right(p) ==
    IF ~p.spawned THEN p ELSE [p EXCEPT !.flip_x = FALSE]

\* set_sprite_left clearing the mirror flag
set_sprite_left_Unmirrored(p) ==
    IF ~p.spawned THEN p ELSE [p EXCEPT !.flip_x = FALSE]

set_sprite_left(p) ==
    IF ~p.spawned THEN p ELSE [p EXCEPT !.flip_x = TRUE]

\* The NextState::set calls update_player_state makes, in order
SetState(s) == [res |-> "state", val |-> s]
SetDirection(d) == [res |-> "direction", val |-> d]

\* update_player_state entering Run from Idle without turning the player
update_player_state_NoTurn(state, direction, k) ==
    IF state = "Idle"
    THEN IF (k.pressed_right /\ k.pressed_left) \/ (k.released_right /\ k.released_left)
         THEN <<>>
         ELSE IF k.pressed_right \/ k.released_left
         THEN <<SetState("Run")>>
         ELSE IF k.pressed_left \/ k.released_right
         THEN <<SetState("Run")>>
         ELSE <<>>
    ELSE IF k.released_right /\ k.pressed_left
         THEN <<SetDirection("Left")>>
         ELSE IF k.released_right \/ k.pressed_left
         THEN <<SetState("Idle")>>
         ELSE IF k.released_left /\ k.pressed_right
         THEN <<SetDirection("Right")>>
         ELSE IF k.released_left \/ k.pressed_right
         THEN <<SetState("Idle")>>
         ELSE <<>>

\* update_player_state whose Idle tie test looks at the two presses only
update_player_state_PressTie(state, direction, k) ==
    IF state = "Idle"
    THEN IF k.pressed_right /\ k.pressed_left
         THEN <<>>
         ELSE IF k.pressed_right \/ k.released_left
         THEN <<SetState("Run")>> \o
              (IF direction = "Left" THEN <<SetDirection("Right")>> ELSE <<>>)
         ELSE IF k.pressed_left \/ k.released_right
         THEN <<SetState("Run")>> \o
              (IF direction = "Right" THEN <<SetDirection("Left")>> ELSE <<>>)
         ELSE <<>>
    ELSE IF k.released_right /\ k.pressed_left
         THEN <<SetDirection("Left")>>
         ELSE IF k.released_right \/ k.pressed_left
         THEN <<SetState("Idle")>>
         ELSE IF k.released_left /\ k.pressed_right
         THEN <<SetDirection("Right")>>
         ELSE IF k.released_left \/ k.pressed_right
         THEN <<SetState("Idle")>>
         ELSE <<>>

\* update_player_state whose last Run arm is a bare else
update_player_state_ElseIdle(state, direction, k) ==
    IF state = "Idle"
    THEN IF (k.pressed_right /\ k.pressed_left) \/ (k.released_right /\ k.released_left)
         THEN <<>>
         ELSE IF k.pressed_right \/ k.released_left
         THEN <<SetState("Run")>> \o
              (IF direction = "Left" THEN <<SetDirection("Right")>> ELSE <<>>)
         ELSE IF k.pressed_left \/ k.released_right
         THEN <<SetState("Run")>> \o
              (IF direction = "Right" THEN <<SetDirection("Left")>> ELSE <<>>)
         ELSE <<>>
    ELSE IF k.released_right /\ k.pressed_left
         THEN <<SetDirection("Left")>>
         ELSE IF k.released_right \/ k.pressed_left
         THEN <<SetState("Idle")>>
         ELSE IF k.released_left /\ k.pressed_right
         THEN <<SetDirection("Right")>>
         ELSE <<SetState("Idle")>>

\* update_player_state whose Idle tie test looks at the two releases only
update_player_state_ReleaseTie(state, direction, k) ==
    IF state = "Idle"
    THEN IF k.released_right /\ k.released_left
         THEN <<>>
         ELSE IF k.pressed_right \/ k.released_left
         THEN <<SetState("Run")>> \o
              (IF direction = "Left" THEN <<SetDirection("Right")>> ELSE <<>>)
         ELSE IF k.pressed_left \/ k.released_right
         THEN <<SetState("Run")>> \o
              (IF direction = "Right" THEN <<SetDirection("Left")>> ELSE <<>>)
         ELSE <<>>
    ELSE IF k.released_right /\ k.pressed_left
         THEN <<SetDirection("Left")>>
         ELSE IF k.released_right \/ k.pressed_left
         THEN <<SetState("Idle")>>
         ELSE IF k.released_left /\ k.pressed_right
         THEN <<SetDirection("Right")>>
         ELSE IF k.released_left \/ k.pressed_right
         THEN <<SetState("Idle")>>
         ELSE <<>>

update_player_state(state, direction, k) ==
    IF state = "Idle"
    THEN IF (k.pressed_right /\ k.pressed_left) \/ (k.released_right /\ k.released_left)
         THEN <<>>
         ELSE IF k.pressed_right \/ k.released_left
         THEN <<SetState("Run")>> \o
              (IF direction = "Left" THEN <<SetDirection("Right")>> ELSE <<>>)
         ELSE IF k.pressed_left \/ k.released_right
         THEN <<SetState("Run")>> \o
              (IF direction = "Right" THEN <<SetDirection("Left")>> ELSE <<>>)
         ELSE <<>>
    ELSE IF k.released_right /\ k.pressed_left
         THEN <<SetDirection("Left")>>
         ELSE IF k.released_right \/ k.pressed_left
         THEN <<SetState("Idle")>>
         ELSE IF k.released_left /\ k.pressed_right
         THEN <<SetDirection("Right")>>
         ELSE IF k.released_left \/ k.pressed_right
         THEN <<SetState("Idle")>>
         ELSE <<>>

\* NextState<S> after the calls: the last set of resource r wins
RECURSIVE Pending(_, _, _)
Pending(calls, r, cur) ==
    IF calls = <<>> THEN cur
    ELSE Pending(Tail(calls), r, IF Head(calls).res = r THEN Head(calls).val ELSE cur)

\* Movement with the sign of the Left arm wrong
Movement_LeftSign(state, direction, dt) ==
    LET y == GRAVITY * GRAVITY_SCALE
        x == IF state = "Run" THEN PLAYER_SPEED ELSE 0
    IN  <<x * dt, y * dt>>

\* move_player: the translation handed to the KinematicCharacterController
Movement(state, direction, dt) ==
    LET y == GRAVITY * GRAVITY_SCALE
        x == IF state = "Run"
             THEN IF direction = "Right" THEN PLAYER_SPEED ELSE 0 - PLAYER_SPEED
             ELSE 0
    IN  <<x * dt, y * dt>>

\* move_player that also restarts the displayed cycle while the player stands
move_player_ResetsIndex(p, state, direction, dt) ==
    IF ~p.spawned THEN p
    ELSE [p EXCEPT !.translation = Movement(state, direction, dt),
                   !.atlas_index = IF state = "Idle" THEN p.indices_first
                                   ELSE p.atlas_index]

\* move_player unwrapping the query result: without the player the system panics
move_player_Unwrap(p, state, direction, dt) ==
    IF ~p.spawned THEN [spawned |-> FALSE, panicked |-> TRUE]
    ELSE [p EXCEPT !.translation = Movement(state, direction, dt)]

move_player(p, state, direction, dt) ==
    IF ~p.spawned THEN p
    ELSE [p EXCEPT !.translation = Movement(state, direction, dt)]

\* OnEnter systems registered in PlayerPlugin::build
OnEnterState(s, p) == IF s = "Idle" THEN set_idle(p) ELSE set_run(p)
OnEnterDirection(d, p) == IF d = "Right" THEN set_sprite_right(p) ELSE set_sprite_left(p)

----------------------------------------------------------------------------
\* App::new() with init_state: both states at their #[default], nothing spawned
Init ==
    /\ pc = "startup"
    /\ player_state = "Idle"
    /\ player_direction = "Right"
    /\ next_player_state = Unchanged
    /\ next_player_direction = Unchanged
    /\ keyboard_input = NoEdges
    /\ delta = 0
    /\ player = NoPlayer
    /\ issued = <<>>
    /\ last_transition = None
    /\ todo = {}

\* The startup run of StateTransition: OnEnter of the two initial states, before
\* Startup has spawned the player
StartupTransition ==
    /\ pc = "startup"
    /\ player' = OnEnterDirection(player_direction, OnEnterState(player_state, player))
    /\ pc' = "spawn"
    /\ UNCHANGED <<player_state, player_direction, next_player_state,
                   next_player_direction, keyboard_input, delta, issued,
                   last_transition, todo>>

\* Startup: spawn_player
SpawnPlayer ==
    /\ pc = "spawn"
    /\ player' = spawn_player
    /\ pc' = "spawned"
    /\ UNCHANGED <<player_state, player_direction, next_player_state,
                   next_player_direction, keyboard_input, delta, issued,
                   last_transition, todo>>

\* Commit applying a pending direction one frame after a pending state
Commit_DirectionLate(k, dt) ==
    /\ pc \in {"spawned", "end"}
    /\ keyboard_input' = k
    /\ delta' = dt
    /\ LET late == next_player_state # Unchanged /\ next_player_direction # Unchanged
           s == IF next_player_state = Unchanged THEN player_state ELSE next_player_state
           d == IF next_player_direction = Unchanged \/ late THEN player_direction
                ELSE next_player_direction
           p0 == IF player.spawned THEN [player EXCEPT !.translation = <<>>] ELSE player
           p1 == IF s # player_state THEN OnEnterState(s, p0) ELSE p0
           p2 == IF d # player_direction THEN OnEnterDirection(d, p1) ELSE p1
       IN  /\ player_state' = s
           /\ player_direction' = d
           /\ player' = p2
           /\ last_transition' = IF s # player_state THEN player_state ELSE None
           /\ next_player_direction' = IF late THEN next_player_direction ELSE Unchanged
    /\ next_player_state' = Unchanged
    /\ issued' = <<>>
    /\ todo' = {}
    /\ pc' = "update"

\* The schedules of a frame before Update: the clock and the keyboard are
\* refreshed (k, dt), the character controller's previous translation has been
\* consumed, and StateTransition commits the pending NextState values and
\* runs the OnEnter systems of the states entered.
Commit(k, dt) ==
    /\ pc \in {"spawned", "end"}
    /\ keyboard_input' = k
    /\ delta' = dt
    /\ LET s == IF next_player_state = Unchanged THEN player_state ELSE next_player_state
           d == IF next_player_direction = Unchanged THEN player_direction
                ELSE next_player_direction
           p0 == IF player.spawned THEN [player EXCEPT !.translation = <<>>] ELSE player
           p1 == IF s # player_state THEN OnEnterState(s, p0) ELSE p0
           p2 == IF d # player_direction THEN OnEnterDirection(d, p1) ELSE p1
       IN  /\ player_state' = s
           /\ player_direction' = d
           /\ player' = p2
           /\ last_transition' = IF s # player_state THEN player_state ELSE None
    /\ next_player_state' = Unchanged
    /\ next_player_direction' = Unchanged
    /\ issued' = <<>>
    /\ todo' = {}
    /\ pc' = "update"

StateTransition == \E k \in KeyEdges, dt \in DtValues : Commit(k, dt)

\* Update, first system of the chain
UpdatePlayerState ==
    /\ pc = "update"
    /\ LET calls == update_player_state(player_state, player_direction, keyboard_input)
       IN  /\ issued' = calls
           /\ next_player_state' = Pending(calls, "state", next_player_state)
           /\ next_player_direction' = Pending(calls, "direction", next_player_direction)
    /\ todo' = {"animate_player", "move_player"}
    /\ pc' = "readers"
    /\ UNCHANGED <<player_state, player_direction, keyboard_input, delta, player,
                   last_transition>>

\* Update, the unordered pair (animate_player, move_player) after update_player_state
Finish(sys) ==
    /\ todo' = todo \ {sys}
    /\ pc' = IF todo \ {sys} = {} THEN "end" ELSE "readers"

AnimatePlayer ==
    /\ pc = "readers"
    /\ "animate_player" \in todo
    /\ player' = animate_player(player, delta)
    /\ Finish("animate_player")
    /\ UNCHANGED <<player_state, player_direction, next_player_state,
                   next_player_direction, keyboard_input, delta, issued,
                   last_transition>>

\* move_player reading the requested state and direction instead of the committed ones
MovePlayer_ReadsNext ==
    /\ pc = "readers"
    /\ "move_player" \in todo
    /\ player' = move_player(player,
                      IF next_player_state = Unchanged THEN player_state
                      ELSE next_player_state,
                      IF next_player_direction = Unchanged THEN player_direction
                      ELSE next_player_direction,
                      delta)
    /\ Finish("move_player")
    /\ UNCHANGED <<player_state, player_direction, next_player_state,
                   next_player_direction, keyboard_input, delta, issued,
                   last_transition>>

MovePlayer ==
    /\ pc = "readers"
    /\ "move_player" \in todo
    /\ player' = move_player(player, player_state, player_direction, delta)
    /\ Finish("move_player")
    /\ UNCHANGED <<player_state, player_direction, next_player_state,
                   next_player_direction, keyboard_input, delta, issued,
                   last_transition>>

\* The same frames on a finer clock: frame times of 0, 16 and 20 ms
DtValuesFine == {0, 16, 20}

StateTransitionFine == \E k \in KeyEdges, dt \in DtValuesFine : Commit(k, dt)

NextFine ==
    \/ StartupTransition
    \/ SpawnPlayer
    \/ StateTransitionFine
    \/ UpdatePlayerState
    \/ AnimatePlayer
    \/ MovePlayer

SpecFine == Init /\ [][NextFine]_vars

\* The world loses the Player entity between two frames.  Nothing in
\* player.rs despawns it; the step stands for the rest of the application.
Despawn ==
    /\ pc \in {"spawned", "end"}
    /\ player.spawned
    /\ player' = NoPlayer
    /\ UNCHANGED <<pc, player_state, player_direction, next_player_state,
                   next_player_direction, keyboard_input, delta, issued,
                   last_transition, todo>>

NextDespawn ==
    \/ StartupTransition
    \/ SpawnPlayer
    \/ StateTransition
    \/ UpdatePlayerState
    \/ AnimatePlayer
    \/ MovePlayer
    \/ Despawn

SpecDespawn == Init /\ [][NextDespawn]_vars

\* The keyboard under the discipline of one edge per key and frame: besides the
\* four edges, ButtonInput holds which of the two keys are down after the
\* frame's events.  A key that was up can be pressed, a key that was down can
\* be released, and no key does both in one frame.
NoKeys == [pressed_right |-> FALSE, released_right |-> FALSE,
           pressed_left |-> FALSE, released_left |-> FALSE,
           held_right |-> FALSE, held_left |-> FALSE]

NextKeyboard(kb) ==
    {[pressed_right |-> pr, released_right |-> rr,
      pressed_left |-> pl, released_left |-> rl,
      held_right |-> (kb.held_right /\ ~rr) \/ pr,
      held_left |-> (kb.held_left /\ ~rl) \/ pl] :
        pr \in {FALSE, ~kb.held_right}, rr \in {FALSE, kb.held_right},
        pl \in {FALSE, ~kb.held_left}, rl \in {FALSE, kb.held_left}}

InitKeys ==
    /\ pc = "startup"
    /\ player_state = "Idle"
    /\ player_direction = "Right"
    /\ next_player_state = Unchanged
    /\ next_player_direction = Unchanged
    /\ keyboard_input = NoKeys
    /\ delta = 0
    /\ player = NoPlayer
    /\ issued = <<>>
    /\ last_transition = None
    /\ todo = {}

StateTransitionKeys ==
    \E k \in NextKeyboard(keyboard_input), dt \in DtValues : Commit(k, dt)

NextKeys ==
    \/ StartupTransition
    \/ SpawnPlayer
    \/ StateTransitionKeys
    \/ UpdatePlayerState
    \/ AnimatePlayer
    \/ MovePlayer

SpecKeys == InitKeys /\ [][NextKeys]_vars

Next ==
    \/ StartupTransition
    \/ SpawnPlayer
    \/ StateTransition
    \/ UpdatePlayerState
    \/ AnimatePlayer
    \/ MovePlayer

Spec == Init /\ [][Next]_vars

TypeOK ==
    /\ pc \in {"startup", "spawn", "spawned", "update", "readers", "end"}
    /\ player_state \in PlayerState
    /\ player_direction \in PlayerDirection
    /\ next_player_state \in PlayerState \cup {Unchanged}
    /\ next_player_direction \in PlayerDirection \cup {Unchanged}
    /\ keyboard_input \in KeyEdges
    /\ delta \in DtValues
    /\ todo \subseteq {"animate_player", "move_player"}

----------------------------------------------------------------------------
\* Positions within a frame
Updated == pc \in {"readers", "end"}
Moved == Updated /\ player.spawned /\ "move_player" \notin todo
Animated == Updated /\ player.spawned /\ "animate_player" \notin todo

\* update_player_state made the call c in this frame
Requested(c) == \E i \in 1..Len(issued) : issued[i] = c

Tie(k) == (k.pressed_right /\ k.pressed_left) \/ (k.released_right /\ k.released_left)

HorizontalOf(state, direction, dt) ==
    IF state = "Idle" THEN 0
    ELSE IF direction = "Right" THEN PLAYER_SPEED * dt ELSE 0 - PLAYER_SPEED * dt

C2_IdleTransitions ==
    [][(pc = "end" /\ player_state = "Idle" /\ ~Tie(keyboard_input)) =>
          IF keyboard_input.pressed_right \/ keyboard_input.released_left
          THEN player_state' = "Run" /\ player_direction' = "Right"
          ELSE IF keyboard_input.pressed_left \/ keyboard_input.released_right
          THEN player_state' = "Run" /\ player_direction' = "Left"
          ELSE player_state' = player_state /\ player_direction' = player_direction]_vars

C2_Witness ==
    /\ pc = "end"
    /\ player_state = "Idle"
    /\ player_direction = "Left"
    /\ keyboard_input.pressed_right
    /\ keyboard_input.released_right
    /\ ~keyboard_input.pressed_left
    /\ ~keyboard_input.released_left
    /\ next_player_state = "Run"
    /\ next_player_direction = "Right"

\* C3: from Idle, a frame with both presses or both releases issues no request
\* and leaves state and direction as they are, whatever the other edges and
\* the direction.
C3_IdleTie ==
    [][(pc = "end" /\ player_state = "Idle" /\ Tie(keyboard_input)) =>
          /\ issued = <<>>
          /\ next_player_state = Unchanged
          /\ next_player_direction = Unchanged
          /\ player_state' = "Idle"
          /\ player_direction' = player_direction]_vars

C3_Witness ==
    /\ pc = "end"
    /\ player_state = "Idle"
    /\ player_direction = "Left"
    /\ keyboard_input.released_right
    /\ keyboard_input.released_left
    /\ keyboard_input.pressed_left
    /\ issued = <<>>

\* C4: from Run facing Right, released_right with pressed_left keeps Run and
\* turns Left; from Run facing Left, released_left with pressed_right keeps Run
\* and turns Right, whatever the other two edges.
C4_RunFlip ==
    [][(pc = "end" /\ player_state = "Run") =>
          /\ (player_direction = "Right" /\ keyboard_input.released_right
                /\ keyboard_input.pressed_left) =>
                (player_state' = "Run" /\ player_direction' = "Left")
          /\ (player_direction = "Left" /\ keyboard_input.released_left
                /\ keyboard_input.pressed_right) =>
                (player_state' = "Run" /\ player_direction' = "Right")]_vars

\* C5: from Run facing Right, exactly one of released_right, pressed_left leads
\* to Idle facing Right; from Run facing Left, exactly one of released_left,
\* pressed_right leads to Idle facing Left, whatever the other two edges.
C5_RunToIdle ==
    [][(pc = "end" /\ player_state = "Run") =>
          /\ (player_direction = "Right"
                /\ keyboard_input.released_right # keyboard_input.pressed_left) =>
                (player_state' = "Idle" /\ player_direction' = "Right")
          /\ (player_direction = "Left"
                /\ keyboard_input.released_left # keyboard_input.pressed_right) =>
                (player_state' = "Idle" /\ player_direction' = "Left")]_vars

\* C6: from Run, edges of the direction not faced change nothing: facing Right
\* without released_right and pressed_left, and facing Left without
\* released_left and pressed_right, state and direction stay as they are.
C6_RunOtherEdges ==
    [][(pc = "end" /\ player_state = "Run") =>
          /\ (player_direction = "Right" /\ ~keyboard_input.released_right
                /\ ~keyboard_input.pressed_left) =>
                (player_state' = "Run" /\ player_direction' = "Right")
          /\ (player_direction = "Left" /\ ~keyboard_input.released_left
                /\ ~keyboard_input.pressed_right) =>
                (player_state' = "Run" /\ player_direction' = "Left")]_vars

\* C7: in each of the four configurations a frame without edges issues no
\* request and leaves state and direction as they are.
C7_NoEdges ==
    [][(pc = "end" /\ keyboard_input = NoEdges) =>
          /\ issued = <<>>
          /\ next_player_state = Unchanged
          /\ next_player_direction = Unchanged
          /\ player_state' = player_state
          /\ player_direction' = player_direction]_vars

C7_Witness ==
    /\ pc = "end"
    /\ keyboard_input = NoEdges
    /\ last_transition = None
    /\ player_state = "Run"
    /\ player_direction = "Left"

\* C8: update_player_state issues at most one state request and at most one
\* direction request per frame, and a request never names the current value.
C8_NoRedundantRequest ==
    Updated =>
        /\ Cardinality({i \in 1..Len(issued) : issued[i].res = "state"}) <= 1
        /\ Cardinality({i \in 1..Len(issued) : issued[i].res = "direction"}) <= 1
        /\ \A i \in 1..Len(issued) :
              /\ issued[i].res = "state" => issued[i].val # player_state
              /\ issued[i].res = "direction" => issued[i].val # player_direction

\* C9: for delta > 0 the translation move_player submits is horizontally 0 when
\* Idle, +PLAYER_SPEED * delta when Run facing Right, -PLAYER_SPEED * delta when
\* Run facing Left, and vertically GRAVITY * gravity_scale * delta, downward, in
\* all four configurations; every frame with the player ends with a translation
\* submitted.
C9_Displacement ==
    /\ (Moved /\ delta > 0) =>
          /\ Len(player.translation) = 2
          /\ player.translation[1] =
                (CASE player_state = "Idle" -> 0
                   [] player_state = "Run" /\ player_direction = "Right" ->
                         PLAYER_SPEED * delta
                   [] player_state = "Run" /\ player_direction = "Left" ->
                         0 - PLAYER_SPEED * delta)
          /\ player.translation[2] = GRAVITY * GRAVITY_SCALE * delta
          /\ player.translation[2] < 0
    /\ (pc = "end" /\ player.spawned) => player.translation # <<>>

C9_Witness ==
    /\ Moved
    /\ delta = 20
    /\ player_state = "Run"
    /\ player_direction = "Left"
    /\ player.translation = <<0 - 10000, 0 - 5000>>

\* C10: the displayed sprite index is always within [first, last] of the active
\* cycle, which is the Idle cycle [0, 9] or the Run cycle [10, 19].
C10_IndexInCycle ==
    player.spawned =>
        /\ player.indices_first <= player.atlas_index
        /\ player.atlas_index <= player.indices_last
        /\ \/ /\ player.indices_first = IDLE_SPRITE_FIRST
              /\ player.indices_last = IDLE_SPRITE_LAST
              /\ player.atlas_index \in 0..9
           \/ /\ player.indices_first = RUN_SPRITE_FIRST
              /\ player.indices_last = RUN_SPRITE_LAST
              /\ player.atlas_index \in 10..19

C10_Witness ==
    /\ Animated
    /\ player.indices_first = RUN_SPRITE_FIRST
    /\ player.atlas_index = RUN_SPRITE_LAST

\* The animation cycle configured for a MotionState: <<first, last, duration>>
CycleOf(state) ==
    IF state = "Run" THEN <<RUN_SPRITE_FIRST, RUN_SPRITE_LAST, RUN_SPRITE_TIMER>>
    ELSE <<IDLE_SPRITE_FIRST, IDLE_SPRITE_LAST, IDLE_SPRITE_TIMER>>

ActiveCycle(p) == <<p.indices_first, p.indices_last, p.timer_duration>>

\* The step taken is the run of animate_player, respectively of move_player
AnimateStep == pc = "readers" /\ "animate_player" \in todo /\ "animate_player" \notin todo'
MoveStep == pc = "readers" /\ "move_player" \in todo /\ "move_player" \notin todo'

\* C11: a step that changes the MotionState replaces first, last and the frame
\* duration by those of the state entered ((10, 19) and the Run duration, or
\* (0, 9) and the Idle duration) and puts the displayed index at first; and
\* whenever animate_player runs, the active cycle is the one of the current
\* MotionState.
C11_CycleFollowsState ==
    [][/\ (player.spawned /\ player_state' # player_state) =>
             /\ ActiveCycle(player') = CycleOf(player_state')
             /\ player'.atlas_index = CycleOf(player_state')[1]
             /\ player_state' = "Run" =>
                   /\ ActiveCycle(player') = <<10, 19, RUN_SPRITE_TIMER>>
                   /\ player'.atlas_index = 10
             /\ player_state' = "Idle" =>
                   /\ ActiveCycle(player') = <<0, 9, IDLE_SPRITE_TIMER>>
                   /\ player'.atlas_index = 0
       /\ (player.spawned /\ AnimateStep) =>
             ActiveCycle(player) = CycleOf(player_state)]_vars

C11_Witness ==
    /\ pc = "update"
    /\ last_transition = "Idle"
    /\ player_state = "Run"
    /\ player.spawned
    /\ ActiveCycle(player) = <<10, 19, 50>>
    /\ player.atlas_index = 10
    /\ player.timer_elapsed > 0

\* C12: the run of animate_player changes the displayed index only if the time
\* accumulated in the timer reaches the active cycle's frame duration in that
\* frame; a change is an advance by exactly one, or from last to first.  In the
\* Run cycle three frames of 16 ms from a fresh timer (accumulated time 0, 16,
\* 32 before the frame) produce no advance.
C12_AdvanceOnTimer ==
    [][(player.spawned /\ AnimateStep) =>
          /\ player'.atlas_index # player.atlas_index =>
                /\ player.timer_elapsed + delta >= player.timer_duration
                /\ player'.atlas_index =
                      IF player.atlas_index = player.indices_last
                      THEN player.indices_first
                      ELSE player.atlas_index + 1
          /\ (player.timer_duration = RUN_SPRITE_TIMER /\ delta = 16
                /\ player.timer_elapsed \in {0, 16, 32}) =>
                player'.atlas_index = player.atlas_index]_vars

C12_Witness ==
    /\ Animated
    /\ last_transition = None
    /\ player_state = "Run"
    /\ delta = 16
    /\ player.timer_elapsed = 48
    /\ player.atlas_index = RUN_SPRITE_FIRST

\* C13: once the player is spawned, flip_x is true exactly when the committed
\* FacingDirection is Left; a step that changes the FacingDirection alone
\* changes only flip_x among the animation cycle, the timer and the displayed
\* index.
C13_MirrorFollowsDirection ==
    [][/\ player'.spawned => (player'.flip_x <=> player_direction' = "Left")
       /\ (player.spawned /\ player_direction' # player_direction) =>
             /\ player'.flip_x # player.flip_x
             /\ player_state' = player_state =>
                   /\ ActiveCycle(player') = ActiveCycle(player)
                   /\ player'.atlas_index = player.atlas_index
                   /\ player'.timer_elapsed = player.timer_elapsed]_vars

C13_Witness ==
    /\ pc = "update"
    /\ last_transition = None
    /\ player_state = "Run"
    /\ player_direction = "Left"
    /\ player.flip_x
    /\ player.atlas_index = RUN_SPRITE_FIRST + 3

\* C14: when the player has just been spawned, MotionState is Idle,
\* FacingDirection is Right, the active cycle is the Idle cycle (first 0,
\* last 9, Idle frame duration), the displayed index is first (0) and the
\* sprite is not mirrored.
C14_SpawnConfiguration ==
    pc = "spawned" =>
        /\ player.spawned
        /\ player_state = "Idle"
        /\ player_direction = "Right"
        /\ player.indices_first = 0
        /\ player.indices_last = 9
        /\ player.timer_duration = IDLE_SPRITE_TIMER
        /\ player.atlas_index = player.indices_first
        /\ player.atlas_index = 0
        /\ player.flip_x = FALSE

C14_Witness ==
    /\ pc = "spawned"
    /\ player.spawned
    /\ player.timer_elapsed = 0
    /\ next_player_state = Unchanged

\* C15: MotionState and FacingDirection change only in the step that commits a
\* request of update_player_state, hence at most once per frame each; the run of
\* animate_player leaves MotionState, FacingDirection, the mirror flag and the
\* requested displacement as they are, and the run of move_player leaves
\* MotionState, FacingDirection, the displayed index, the animation cycle and the
\* mirror flag as they are.
C15_SingleWriter ==
    [][/\ player_state' # player_state =>
             (pc = "end" /\ pc' = "update" /\ next_player_state = player_state')
       /\ player_direction' # player_direction =>
             (pc = "end" /\ pc' = "update" /\ next_player_direction = player_direction')
       /\ (player.spawned /\ AnimateStep) =>
             /\ player_state' = player_state
             /\ player_direction' = player_direction
             /\ player'.flip_x = player.flip_x
             /\ player'.translation = player.translation
       /\ (player.spawned /\ MoveStep) =>
             /\ player_state' = player_state
             /\ player_direction' = player_direction
             /\ player'.atlas_index = player.atlas_index
             /\ ActiveCycle(player') = ActiveCycle(player)
             /\ player'.flip_x = player.flip_x]_vars

C15_Witness ==
    /\ pc = "end"
    /\ player_state = "Run"
    /\ player_direction = "Left"
    /\ last_transition = "Idle"
    /\ delta = 20
    /\ player.flip_x
    /\ player.atlas_index = RUN_SPRITE_FIRST + 1
    /\ player.translation = <<0 - PLAYER_SPEED * 20, GRAVITY * 20>>

\* C16: while the Player entity is absent, the frames go on and no system
\* fails: the OnEnter systems, animate_player and move_player leave the world
\* without player components and submit no displacement.
C16_AbsentPlayerSkipped ==
    [][(~player.spawned /\ pc # "spawn") =>
          /\ player' = NoPlayer
          /\ pc = "readers" => (AnimateStep \/ MoveStep)]_vars

C16_Witness ==
    /\ pc = "end"
    /\ ~player.spawned
    /\ player = NoPlayer
    /\ player_state = "Run"
    /\ player_direction = "Left"
    /\ last_transition = "Idle"
    /\ delta = 20

\* The keys held before this frame's edges, and after them
HeldBefore(kb) ==
    [right |-> (kb.held_right /\ ~kb.pressed_right) \/ kb.released_right,
     left |-> (kb.held_left /\ ~kb.pressed_left) \/ kb.released_left]

HeldAfter(kb) == [right |-> kb.held_right, left |-> kb.held_left]

Agrees(state, direction, h) ==
    /\ state = "Run" <=> h.right # h.left
    /\ state = "Run" => direction = (IF h.right THEN "Right" ELSE "Left")

\* C17: from the spawn configuration with no key held, when each key gives at
\* most one edge per frame and only the edge its held status allows, then at
\* the start of every frame's update MotionState is Run exactly when exactly
\* one of the two keys was held before the frame's edges, and then the
\* FacingDirection is that key's; after the update the same holds of the
\* requested state and direction and the keys held after the frame's edges.
C17_AgreesWithHeldKeys ==
    /\ pc = "update" =>
          Agrees(player_state, player_direction, HeldBefore(keyboard_input))
    /\ Updated =>
          Agrees(IF next_player_state = Unchanged THEN player_state
                 ELSE next_player_state,
                 IF next_player_direction = Unchanged THEN player_direction
                 ELSE next_player_direction,
                 HeldAfter(keyboard_input))

C17_Witness ==
    /\ pc = "end"
    /\ player_state = "Run"
    /\ player_direction = "Right"
    /\ next_player_state = Unchanged
    /\ next_player_direction = "Left"
    /\ keyboard_input.released_right
    /\ keyboard_input.pressed_left
    /\ keyboard_input.held_left
    /\ ~keyboard_input.held_right

\* C18: a state request and a direction request of the same frame are
\* committed in the same step, so Run is never committed with the direction
\* faced before the request; between that step and the end of the frame state
\* and direction stay, and the displacement move_player emits in the frame
\* that enters Run has the sign of the committed direction.
C18_CommittedTogether ==
    [][/\ (pc = "end" /\ next_player_state # Unchanged
             /\ next_player_direction # Unchanged) =>
             /\ player_state' = next_player_state
             /\ player_direction' = next_player_direction
             /\ ~(player_state' = "Run" /\ player_direction' = player_direction)
             /\ player.spawned => (player'.flip_x <=> next_player_direction = "Left")
       /\ pc \in {"update", "readers"} =>
             (player_state' = player_state /\ player_direction' = player_direction)
       /\ (player.spawned /\ MoveStep /\ last_transition = "Idle") =>
             player'.translation[1] = HorizontalOf("Run", player_direction, delta)]_vars

C18_Witness ==
    /\ pc = "end"
    /\ player_state = "Idle"
    /\ player_direction = "Right"
    /\ next_player_state = "Run"
    /\ next_player_direction = "Left"
    /\ delta = 10
    /\ player.translation = <<0, GRAVITY * 10>>

\* C19: a step that changes the MotionState gives the timer the duration of the
\* state entered and leaves the time accumulated in it as it was.  (The witness
\* is a frame that enters Run and advances the index 10 ms later, less than the
\* Run frame duration.)
C19_TimerKeepsElapsed ==
    [][(player.spawned /\ player_state' # player_state) =>
          /\ player'.timer_duration = CycleOf(player_state')[3]
          /\ player'.timer_duration # player.timer_duration
          /\ player'.timer_elapsed = player.timer_elapsed]_vars

C19_Witness ==
    /\ Animated
    /\ last_transition = "Idle"
    /\ player_state = "Run"
    /\ delta = 10
    /\ delta < RUN_SPRITE_TIMER
    /\ player.atlas_index = RUN_SPRITE_FIRST + 1
====
